---- MODULE Spec2Model ----
(***************************************************************************)
(* The tag editor of the task manager: the TagsInput component             *)
(* (src/src/components/tags-input.tsx), the state its handlers change, and *)
(* the path of a tag collection from the edit modal                        *)
(* (src/src/components/task-detail-modal.tsx) into HomePage's task store   *)
(* (src/unnamed/part_000).                                                 *)
(*                                                                         *)
(* A JavaScript string is modelled as a sequence of one-character strings, *)
(* so that trim() and toLowerCase() are computed character by character.   *)
(* A tag collection (string[]) is a sequence of such strings.              *)
(***************************************************************************)
EXTENDS Integers, Sequences, FiniteSets, TLC

(***************************************************************************)
(* Bounds of the model.                                                    *)
(***************************************************************************)
\* The maxTags prop of the usage host is drawn from 0..MaxTagsBound.
MaxTagsBound == 3

\* The number of quick-adds and of edit sessions opened in one run: it
\* bounds the tasks in the store and the saves in flight.
MaxHomeEvents == 2

\* The same number where every field of a task is edited (host "home").
MaxAppEvents == 3

\* maxTags={10} of the TagsInput in TaskDetailModal.
ModalMaxTags == 10

\* allowDuplicates = false, the default of the prop.
DefaultAllowDuplicates == FALSE

\* The tags typed in the modal, in the order they are typed: one more than
\* the modal's limit.
TagPool ==
    << <<"a">>, <<"b">>, <<"c">>, <<"d">>, <<"e">>, <<"f">>,
       <<"g">>, <<"h">>, <<"i">>, <<"j">>, <<"k">> >>

\* The texts a user types into the tag input: empty, whitespace only, lower
\* and upper case, with surrounding and with inner whitespace.
RawInputs ==
    { <<>>,
      <<" ">>,
      <<"a">>,
      <<"A">>,
      <<" ", "a", " ">>,
      <<"b">>,
      <<" ", "B">>,
      <<"a", " ", "b">>,
      <<"A", " ", "B", " ">> }

\* The keys handleTagKeyDown distinguishes; "Other" stands for every other key.
Keys == {"Enter", "Backspace", "Other"}

(***************************************************************************)
(* String.prototype.trim and String.prototype.toLowerCase.                 *)
(***************************************************************************)
Whitespace == {" "}

toLowerChar(c) ==
    CASE c = "A" -> "a"
      [] c = "B" -> "b"
      [] OTHER   -> c

toLowerCase(s) == [i \in 1..Len(s) |-> toLowerChar(s[i])]

RECURSIVE trimStart(_)
trimStart(s) ==
    IF s # <<>> /\ Head(s) \in Whitespace THEN trimStart(Tail(s)) ELSE s

RECURSIVE trimEnd(_)
trimEnd(s) ==
    IF s # <<>> /\ s[Len(s)] \in Whitespace
    THEN trimEnd(SubSeq(s, 1, Len(s) - 1))
    ELSE s

trim(s) == trimEnd(trimStart(s))

\* Array.prototype.includes on a string[].
includes(ts, t) == \E i \in 1..Len(ts) : ts[i] = t

\* Mutant of filterNot: the comparison inverted (tag === tagToRemove).
filterNot_Inverted(ts, t) == SelectSeq(ts, LAMBDA tag : tag = t)

\* Mutant of filterNot: only the first matching entry is dropped.
filterNot_FirstOnly(ts, t) ==
    IF \E i \in 1..Len(ts) : ts[i] = t
    THEN LET k == CHOOSE i \in 1..Len(ts) :
                     ts[i] = t /\ \A j \in 1..(i - 1) : ts[j] # t
         IN  SubSeq(ts, 1, k - 1) \o SubSeq(ts, k + 1, Len(ts))
    ELSE ts

\* Array.prototype.filter((tag) => tag !== tagToRemove).
filterNot(ts, t) == SelectSeq(ts, LAMBDA tag : tag # t)

(***************************************************************************)
(* State.                                                                  *)
(*                                                                         *)
(* TagsInput is mounted by a host. host = "usage": an owner that keeps the *)
(* collection in a state setter of its own and passes arbitrary props      *)
(* (tags-input.usage.tsx). host = "modal" and host = "home":               *)
(* TaskDetailModal, which seeds the collection from the task it edits,     *)
(* passes maxTags = 10 and the default allowDuplicates, and hands the      *)
(* collection to HomePage's task store on save; in "home" the controls of  *)
(* the modal are disabled as the code disables them. host = "display":     *)
(* TagsDisplay alone. A task is the record of its id, title, text,         *)
(* description, priority, tags, completed and createdAt (dueDate is never  *)
(* set).                                                                   *)
(***************************************************************************)
VARIABLES
    host,             \* what is mounted: "usage", "modal", "home" or "display"
    tags,             \* the tags prop: the owner's collection (string[])
    tagInput,         \* TagsInput's staged input text (useState(''))
    maxTags,          \* the maxTags prop
    allowDuplicates,  \* the allowDuplicates prop
    tasks,            \* HomePage: the task store, newest first
    selectedTask,     \* HomePage: the task the modal was opened on, or NoTask
    isModalOpen,      \* HomePage: whether the modal is shown
    isSaving,         \* TaskDetailModal: a save of this modal is in flight
    saves,            \* handleSaveTask calls waiting for their delay, oldest first
    title,            \* TaskDetailModal: the working copy of the title
    description,      \* TaskDetailModal: the working copy of the description
    priority,         \* TaskDetailModal: the working copy of the priority
    isDeleting,       \* TaskDetailModal: a delete of this modal is in flight
    deletes,          \* handleDeleteFromModal calls waiting for their delay
    nextId,           \* the next task id (Date.now() at the end of a quick-add)
    maxDisplay,       \* TagsDisplay: the maxDisplay prop: <<n>>, or <<>> when absent
    onTagClick,       \* TagsDisplay: whether the onTagClick prop is supplied
    variant,          \* TagsDisplay: the variant prop
    output,           \* TagsDisplay: what the last render returned
    click,            \* observation: the last click on a rendered tag
    quickInput,       \* QuickAddTask: input, the text of its field (useState(''))
    isLoading,        \* QuickAddTask: a submission is awaited
    disabled,         \* QuickAddTask: the disabled prop
    adds,             \* onSubmit calls waiting for their delay, oldest first
    now,              \* the clock (Date.now()), in ticks
    homeEvents,       \* observation: the quick-adds and sessions opened so far
    copies,           \* observation: the working copy each save in flight started from
    seen,             \* observation: what the last HomePage or modal handler call
                      \* showed: "alert", "discard", "gone", "lost", or "none"
    last,             \* observation: the last handler call, with the state it saw
    trip              \* observation: an accepted add and the remove that follows it

props == <<host, maxTags, allowDuplicates>>
home == <<tasks, selectedTask, isModalOpen, isSaving, saves, nextId, homeEvents,
          title, description, priority, isDeleting, deletes, copies, seen>>
session == <<tags, tagInput, title, description, priority, isSaving,
             isDeleting, selectedTask, isModalOpen, last, trip>>
display == <<maxDisplay, onTagClick, variant, output, click>>
quick == <<quickInput, isLoading, disabled, adds, now>>
vars == <<host, tags, tagInput, maxTags, allowDuplicates, tasks, selectedTask,
          isModalOpen, isSaving, saves, nextId, homeEvents, last, trip,
          maxDisplay, onTagClick, variant, output, click,
          title, description, priority, isDeleting, deletes, copies, seen,
          quickInput, isLoading, disabled, adds, now>>

\* Every tag the inputs can produce, and one text that is no tag of any
\* collection (it is not normalized).
TagUniverse == {toLowerCase(trim(r)) : r \in RawInputs} \ {<<>>}
RemoveArgs == TagUniverse \cup {<<"A">>}

\* The hosts in which TagsInput sits in HomePage's edit modal. In "modal"
\* only the tags of a task are edited, up to the limit of 10; in "home"
\* every field is, and few tags are typed. In "page" HomePage is taken with
\* its QuickAddTask and the clock; "owner" is an owner like HomePage whose
\* operations may fail.
HomeHosts == {"modal", "home", "page", "owner"}

\* undefined, where a string is expected.
Undefined == <<"undefined">>

Priorities == {"low", "medium", "high"}

\* The priority buttons the user clicks.
PriorityClicks == Priorities \ {"low"}

\* selectedTask when no task is selected (null).
NoTask ==
    [id |-> 0, title |-> <<>>, text |-> <<>>, description |-> Undefined,
     priority |-> "medium", tags |-> <<>>, completed |-> FALSE,
     createdAt |-> 0]

\* The texts submitted to quick-add, and typed into the title and the
\* description fields of the modal.
QuickTexts == {<<"t">>}
TitleTexts == {<<" ">>, <<"u", " ">>}
DescriptionTexts == {<<"d", " ">>}

\* TagsInput exists while its host renders it.
Mounted == host = "usage" \/ isModalOpen

\* The texts typed in the modal: nothing, the next tag of the pool, or the
\* tag entered last once more. In the modal, tags are entered in the order
\* of the pool and removed from the end while no text is staged, so that a
\* collection of maxTags = 10 tags is reached in few states: the
\* collections of the modal are the prefixes of the pool.
ModalTexts ==
    {<<>>}
    \cup (IF Len(tags) < Len(TagPool) THEN {TagPool[Len(tags) + 1]} ELSE {})
    \cup (IF tags # <<>> THEN {tags[Len(tags)]} ELSE {})

\* What the user types, and the tags whose X button the user clicks.
TypedTexts == IF host = "usage" THEN RawInputs ELSE ModalTexts
ClickedTags ==
    IF host = "usage" THEN RemoveArgs
    ELSE IF tags # <<>> /\ tagInput = <<>> THEN {tags[Len(tags)]} ELSE {}

NoCall == [op |-> "none", key |-> "none", arg |-> <<>>,
           tags |-> <<>>, tagInput |-> <<>>, calls |-> <<>>]
NoTrip == [phase |-> "none", base |-> <<>>, tag |-> <<>>]

\* The observations of TagsInput's handler calls are kept where the editor
\* is the subject (hosts "usage" and "modal"), and not in host "home".
seenCall(call) == IF host = "home" THEN NoCall ELSE call
seenTrip(t) == IF host = "home" THEN NoTrip ELSE t

\* TagsDisplay returned null: nothing is rendered.
Null == [rendered |-> FALSE, visible |-> <<>>, overflow |-> 0]

\* No tag has been clicked since the last render.
NoClick == [index |-> 0, calls |-> <<>>]

\* The renderer's variables while no TagsDisplay is rendered.
NoDisplay ==
    /\ maxDisplay = <<>>
    /\ onTagClick = FALSE
    /\ variant = "default"
    /\ output = Null
    /\ click = NoClick

(***************************************************************************)
(* handleAddTag, as the calls it makes: the payloads it passes to          *)
(* onTagsChange, in order, and the staged text it leaves.                  *)
(***************************************************************************)
\* Mutant: the duplicate check is missing.
handleAddTagEffect_NoDuplicateCheck(ts, input, mx, dup) ==
    LET trimmedTag == toLowerCase(trim(input)) IN
    IF trimmedTag = <<>>
    THEN [calls |-> <<>>, tagInput |-> input]
    ELSE IF Len(ts) >= mx
    THEN [calls |-> <<>>, tagInput |-> input]
    ELSE [calls |-> <<Append(ts, trimmedTag)>>, tagInput |-> <<>>]

\* Mutant: the limit check is missing.
handleAddTagEffect_NoLimitCheck(ts, input, mx, dup) ==
    LET trimmedTag == toLowerCase(trim(input)) IN
    IF trimmedTag = <<>>
    THEN [calls |-> <<>>, tagInput |-> input]
    ELSE IF ~dup /\ includes(ts, trimmedTag)
    THEN [calls |-> <<>>, tagInput |-> <<>>]
    ELSE [calls |-> <<Append(ts, trimmedTag)>>, tagInput |-> <<>>]

\* Mutant: the limit check is off by one (tags.length > maxTags).
handleAddTagEffect_LimitOffByOne(ts, input, mx, dup) ==
    LET trimmedTag == toLowerCase(trim(input)) IN
    IF trimmedTag = <<>>
    THEN [calls |-> <<>>, tagInput |-> input]
    ELSE IF ~dup /\ includes(ts, trimmedTag)
    THEN [calls |-> <<>>, tagInput |-> <<>>]
    ELSE IF Len(ts) > mx
    THEN [calls |-> <<>>, tagInput |-> input]
    ELSE [calls |-> <<Append(ts, trimmedTag)>>, tagInput |-> <<>>]

\* Mutant: the input is trimmed but not lowercased.
handleAddTagEffect_NoLowerCase(ts, input, mx, dup) ==
    LET trimmedTag == trim(input) IN
    IF trimmedTag = <<>>
    THEN [calls |-> <<>>, tagInput |-> input]
    ELSE IF ~dup /\ includes(ts, trimmedTag)
    THEN [calls |-> <<>>, tagInput |-> <<>>]
    ELSE IF Len(ts) >= mx
    THEN [calls |-> <<>>, tagInput |-> input]
    ELSE [calls |-> <<Append(ts, trimmedTag)>>, tagInput |-> <<>>]

\* Mutant: the new tag is put first ([trimmedTag, ...tags]).
handleAddTagEffect_Prepend(ts, input, mx, dup) ==
    LET trimmedTag == toLowerCase(trim(input)) IN
    IF trimmedTag = <<>>
    THEN [calls |-> <<>>, tagInput |-> input]
    ELSE IF ~dup /\ includes(ts, trimmedTag)
    THEN [calls |-> <<>>, tagInput |-> <<>>]
    ELSE IF Len(ts) >= mx
    THEN [calls |-> <<>>, tagInput |-> input]
    ELSE [calls |-> << <<trimmedTag>> \o ts >>, tagInput |-> <<>>]

\* Mutant: the emptiness check reads the raw text (!tagInput).
handleAddTagEffect_RawEmptyCheck(ts, input, mx, dup) ==
    LET trimmedTag == toLowerCase(trim(input)) IN
    IF input = <<>>
    THEN [calls |-> <<>>, tagInput |-> input]
    ELSE IF ~dup /\ includes(ts, trimmedTag)
    THEN [calls |-> <<>>, tagInput |-> <<>>]
    ELSE IF Len(ts) >= mx
    THEN [calls |-> <<>>, tagInput |-> input]
    ELSE [calls |-> <<Append(ts, trimmedTag)>>, tagInput |-> <<>>]

\* Mutant: a rejected duplicate does not clear the staged text.
handleAddTagEffect_KeepTextOnDuplicate(ts, input, mx, dup) ==
    LET trimmedTag == toLowerCase(trim(input)) IN
    IF trimmedTag = <<>>
    THEN [calls |-> <<>>, tagInput |-> input]
    ELSE IF ~dup /\ includes(ts, trimmedTag)
    THEN [calls |-> <<>>, tagInput |-> input]
    ELSE IF Len(ts) >= mx
    THEN [calls |-> <<>>, tagInput |-> input]
    ELSE [calls |-> <<Append(ts, trimmedTag)>>, tagInput |-> <<>>]

handleAddTagEffect(ts, input, mx, dup) ==
    LET trimmedTag == toLowerCase(trim(input)) IN
    IF trimmedTag = <<>>
    THEN [calls |-> <<>>, tagInput |-> input]
    ELSE IF ~dup /\ includes(ts, trimmedTag)
    THEN [calls |-> <<>>, tagInput |-> <<>>]
    ELSE IF Len(ts) >= mx
    THEN [calls |-> <<>>, tagInput |-> input]
    ELSE [calls |-> <<Append(ts, trimmedTag)>>, tagInput |-> <<>>]

\* handleRemoveTag: one call of onTagsChange with the filtered array.
handleRemoveTagEffect(ts, tagToRemove) ==
    [calls |-> <<filterNot(ts, tagToRemove)>>]

\* The owner's onTagsChange is a state setter: the collection becomes the
\* payload of the last call, and stays as it is when there was no call.
afterCalls(ts, calls) == IF calls = <<>> THEN ts ELSE calls[Len(calls)]

(***************************************************************************)
(* TagsInput: one action per event handler. A handler may run whenever the *)
(* component is mounted: what it does when called is the subject here, so  *)
(* the conditions under which the input and the buttons are rendered or    *)
(* disabled (lines 111, 140, 148, 154) do not guard the actions.           *)
(***************************************************************************)
\* onChange of the input: setTagInput(e.target.value).
setTagInput(raw) ==
    /\ Mounted
    /\ tagInput' = raw
    /\ last' = seenCall([op |-> "setTagInput", key |-> "change", arg |-> raw,
                         tags |-> tags, tagInput |-> tagInput,
                         calls |-> <<>>])
    /\ UNCHANGED <<tags, props, display, quick, home, trip>>

\* The body of handleAddTag, reached from the Add button (key = "click") or
\* from handleTagKeyDown (key = "Enter").
AddTagStep(key) ==
    LET eff == handleAddTagEffect(tags, tagInput, maxTags, allowDuplicates) IN
    /\ Mounted
    /\ tags' = afterCalls(tags, eff.calls)
    /\ tagInput' = eff.tagInput
    /\ last' = seenCall([op |-> "handleAddTag", key |-> key, arg |-> tagInput,
                         tags |-> tags, tagInput |-> tagInput,
                         calls |-> eff.calls])
    /\ trip' = IF eff.calls # <<>>
               THEN seenTrip([phase |-> "added", base |-> tags,
                              tag |-> toLowerCase(trim(tagInput))])
               ELSE NoTrip
    /\ UNCHANGED <<props, display, quick, home>>

\* The body of handleRemoveTag, reached from a tag's X button (key =
\* "click") or from handleTagKeyDown (key = "Backspace").
RemoveTagStep(key, tagToRemove) ==
    LET eff == handleRemoveTagEffect(tags, tagToRemove) IN
    /\ Mounted
    /\ tags' = afterCalls(tags, eff.calls)
    /\ last' = seenCall([op |-> "handleRemoveTag", key |-> key,
                         arg |-> tagToRemove, tags |-> tags,
                         tagInput |-> tagInput, calls |-> eff.calls])
    /\ trip' = IF trip.phase = "added" /\ trip.tag = tagToRemove
               THEN [trip EXCEPT !.phase = "removed"]
               ELSE NoTrip
    /\ UNCHANGED <<tagInput, props, display, quick, home>>

\* onClick of the Add button.
handleAddTag == AddTagStep("click")

\* onClick of a tag's X button.
handleRemoveTag(tagToRemove) == RemoveTagStep("click", tagToRemove)

\* onKeyDown of the input.
handleTagKeyDown(key) ==
    IF key = "Enter"
    THEN AddTagStep("Enter")
    ELSE IF key = "Backspace" /\ tagInput = <<>> /\ Len(tags) > 0
    THEN RemoveTagStep("Backspace", tags[Len(tags)])
    ELSE /\ Mounted
         /\ last' = [op |-> "none", key |-> key, arg |-> <<>>,
                     tags |-> tags, tagInput |-> tagInput, calls |-> <<>>]
         /\ trip' = NoTrip
         /\ UNCHANGED <<tags, tagInput, props, display, quick, home>>

(***************************************************************************)
(* HomePage and TaskDetailModal: the task store and the edit session.      *)
(*                                                                         *)
(* The delays of handleSaveTask and handleDeleteFromModal (setTimeout,     *)
(* 300 ms) split a save and a delete in two steps: handleSave and          *)
(* handleDelete start the call, handleSaveTask and handleDeleteFromModal   *)
(* are the ends of the delays, where the store changes and the awaiting    *)
(* handler resumes. The calls of each kind end in the order they started.  *)
(***************************************************************************)
\* The quick-adds and sessions opened in one run.
HomeBudget == IF host = "home" THEN MaxAppEvents ELSE MaxHomeEvents

\* TaskDetailModal is unmounted (HomePage renders it only while
\* selectedTask is set): its state and TagsInput's are gone.
ModalUnmounted ==
    /\ isModalOpen' = FALSE
    /\ selectedTask' = NoTask
    /\ title' = <<>>
    /\ description' = <<>>
    /\ priority' = "medium"
    /\ tags' = <<>>
    /\ tagInput' = <<>>
    /\ isSaving' = FALSE
    /\ isDeleting' = FALSE
    /\ last' = NoCall
    /\ trip' = NoTrip

\* The task handleAddTask builds.
newTask(taskInput) ==
    [id |-> nextId, title |-> taskInput, text |-> taskInput,
     description |-> Undefined, priority |-> "medium", tags |-> <<>>,
     completed |-> FALSE, createdAt |-> nextId]

\* handleAddTask at the end of its delay: the new task is put first.
handleAddTask(taskInput) ==
    /\ host \in HomeHosts
    /\ homeEvents < HomeBudget
    /\ tasks' = <<newTask(taskInput)>> \o tasks
    /\ nextId' = nextId + 1
    /\ homeEvents' = homeEvents + 1
    /\ seen' = "none"
    /\ UNCHANGED <<props, display, quick, session, saves, deletes, copies>>

\* Mutant of toggled: the flag of every task is flipped.
toggled_All(ts, id) ==
    [i \in 1..Len(ts) |-> [ts[i] EXCEPT !.completed = ~ts[i].completed]]

\* prevTasks.map(task => task.id === id ? {...task, completed: !task.completed} : task).
toggled(ts, id) ==
    [i \in 1..Len(ts) |->
        IF ts[i].id = id
        THEN [ts[i] EXCEPT !.completed = ~ts[i].completed]
        ELSE ts[i]]

\* handleToggleTask from the checkbox of a row of the list; the open
\* modal's backdrop covers the list.
handleToggleTask(i) ==
    /\ host \in HomeHosts
    /\ ~isModalOpen
    /\ i \in 1..Len(tasks)
    /\ tasks' = toggled(tasks, tasks[i].id)
    /\ seen' = "none"
    /\ UNCHANGED <<props, display, quick, session, saves, deletes, copies,
                   nextId, homeEvents>>

\* Mutant of withoutTask: the task and every task after it are dropped.
withoutTask_DropsRest(ts, id) ==
    IF \E i \in 1..Len(ts) : ts[i].id = id
    THEN SubSeq(ts, 1, (CHOOSE i \in 1..Len(ts) : ts[i].id = id) - 1)
    ELSE ts

\* setTasks(prev => prev.filter((task) => task.id !== id)).
withoutTask(ts, id) == SelectSeq(ts, LAMBDA task : task.id # id)

\* handleDeleteTask from a row of the list; the open modal's backdrop covers
\* the list.
handleDeleteTask(i) ==
    /\ host \in HomeHosts
    /\ ~isModalOpen
    /\ i \in 1..Len(tasks)
    /\ tasks' = withoutTask(tasks, tasks[i].id)
    /\ seen' = "none"
    /\ UNCHANGED <<props, display, quick, session, saves, deletes, copies,
                   nextId, homeEvents>>

\* task.description || ''.
orEmpty(d) == IF d = Undefined THEN <<>> ELSE d

\* handleOpenTaskDetails from a row of the list: the modal is mounted and
\* seeds its working copy from the task (useState, lines 59-64, and the
\* effect of lines 69-76).
handleOpenTaskDetails(i) ==
    /\ host \in HomeHosts
    /\ ~isModalOpen
    /\ i \in 1..Len(tasks)
    /\ homeEvents < HomeBudget
    /\ homeEvents' = homeEvents + 1
    /\ selectedTask' = tasks[i]
    /\ isModalOpen' = TRUE
    /\ title' = tasks[i].title
    /\ description' = orEmpty(tasks[i].description)
    /\ priority' = tasks[i].priority
    /\ tags' = tasks[i].tags
    /\ tagInput' = <<>>
    /\ isSaving' = FALSE
    /\ isDeleting' = FALSE
    /\ last' = NoCall
    /\ trip' = NoTrip
    /\ seen' = "none"
    /\ UNCHANGED <<props, display, quick, tasks, saves, deletes, copies, nextId>>

\* The fields of the modal are disabled while a save or a delete of the
\* session is awaited (disabled={isSaving || isDeleting}).
Editable == isModalOpen /\ ~isSaving /\ ~isDeleting

\* The working copy differs from the values it was seeded with.
edited ==
    \/ title # selectedTask.title
    \/ description # orEmpty(selectedTask.description)
    \/ priority # selectedTask.priority
    \/ tags # selectedTask.tags

\* Mutant of handleCloseModal: closing writes the working copy to the store.
handleCloseModal_Commits ==
    /\ host \in HomeHosts
    /\ isModalOpen
    /\ ModalUnmounted
    /\ seen' = IF Editable /\ edited THEN "discard" ELSE "none"
    /\ tasks' = [i \in 1..Len(tasks) |->
                    IF tasks[i].id = selectedTask.id
                    THEN [tasks[i] EXCEPT !.title = title, !.tags = tags]
                    ELSE tasks[i]]
    /\ UNCHANGED <<props, display, quick, saves, deletes, copies, nextId,
                   homeEvents>>

\* handleCloseModal from the backdrop or the close button, which are never
\* disabled, or from Cancel.
handleCloseModal ==
    /\ host \in HomeHosts
    /\ isModalOpen
    /\ ModalUnmounted
    /\ seen' = IF Editable /\ edited THEN "discard" ELSE "none"
    /\ UNCHANGED <<props, display, quick, tasks, saves, deletes, copies, nextId,
                   homeEvents>>

\* Mutant of setTitle: the title field is not disabled.
setTitle_NotDisabled(text) ==
    /\ host \in HomeHosts
    /\ isModalOpen
    /\ title' = text
    /\ seen' = "none"
    /\ UNCHANGED <<props, display, quick, tasks, saves, deletes, copies, nextId,
                   homeEvents, tags, tagInput, description, priority,
                   isSaving, isDeleting, selectedTask, isModalOpen, last, trip>>

\* onChange of the title field: setTitle(e.target.value).
setTitle(text) ==
    /\ host \in HomeHosts
    /\ Editable
    /\ title' = text
    /\ seen' = "none"
    /\ UNCHANGED <<props, display, quick, tasks, saves, deletes, copies, nextId,
                   homeEvents, tags, tagInput, description, priority,
                   isSaving, isDeleting, selectedTask, isModalOpen, last, trip>>

\* onChange of the description field: setDescription(e.target.value).
setDescription(text) ==
    /\ host \in HomeHosts
    /\ Editable
    /\ description' = text
    /\ seen' = "none"
    /\ UNCHANGED <<props, display, quick, tasks, saves, deletes, copies, nextId,
                   homeEvents, tags, tagInput, title, priority,
                   isSaving, isDeleting, selectedTask, isModalOpen, last, trip>>

\* onClick of a priority button: setPriority(p).
setPriority(p) ==
    /\ host \in HomeHosts
    /\ Editable
    /\ priority' = p
    /\ seen' = "none"
    /\ UNCHANGED <<props, display, quick, tasks, saves, deletes, copies, nextId,
                   homeEvents, tags, tagInput, title, description,
                   isSaving, isDeleting, selectedTask, isModalOpen, last, trip>>

\* description.trim() || undefined.
orUndefined(d) == IF d = <<>> THEN Undefined ELSE d

\* The task handleSave hands to onSave: {...task, title, description,
\* priority, tags} of the task prop and the working copy.
updatedTask ==
    [selectedTask EXCEPT !.title = trim(title),
                         !.description = orUndefined(trim(description)),
                         !.priority = priority,
                         !.tags = tags]

\* The working copy of the session, as the user sees it.
workingCopy ==
    [id |-> selectedTask.id, title |-> title, description |-> description,
     priority |-> priority, tags |-> tags]

\* Mutant of handleSave: the title is not checked.
handleSave_NoTitleCheck ==
    /\ host \in HomeHosts
    /\ Editable
    /\ isSaving' = TRUE
    /\ saves' = Append(saves, updatedTask)
    /\ copies' = Append(copies, workingCopy)
    /\ seen' = "none"
    /\ UNCHANGED <<props, display, quick, tasks, deletes, nextId, homeEvents,
                   tags, tagInput, title, description, priority,
                   isDeleting, selectedTask, isModalOpen, last, trip>>

\* handleSave up to its await: an empty title is refused with an alert;
\* otherwise the payload is built and onSave is called. The Save button is
\* disabled while isSaving or isDeleting.
handleSave ==
    /\ host \in HomeHosts
    /\ Editable
    /\ IF trim(title) = <<>>
       THEN /\ seen' = "alert"
            /\ UNCHANGED <<isSaving, saves, copies>>
       ELSE /\ isSaving' = TRUE
            /\ saves' = Append(saves, updatedTask)
            /\ copies' = Append(copies, workingCopy)
            /\ seen' = "none"
    /\ UNCHANGED <<props, display, quick, tasks, deletes, nextId, homeEvents,
                   tags, tagInput, title, description, priority,
                   isDeleting, selectedTask, isModalOpen, last, trip>>

\* Mutant of withSavedTask: a task that is not in the store is put first.
withSavedTask_Upserts(ts, updated) ==
    IF \E i \in 1..Len(ts) : ts[i].id = updated.id
    THEN [i \in 1..Len(ts) |->
             IF ts[i].id = updated.id
             THEN [updated EXCEPT !.text = updated.title]
             ELSE ts[i]]
    ELSE <<[updated EXCEPT !.text = updated.title]>> \o ts

\* Mutant of withSavedTask: the session's tags are not written.
withSavedTask_KeepsTags(ts, updated) ==
    [i \in 1..Len(ts) |->
        IF ts[i].id = updated.id
        THEN [updated EXCEPT !.text = updated.title, !.tags = ts[i].tags]
        ELSE ts[i]]

\* setTasks(prev => prev.map(task => task.id === updatedTask.id
\*     ? {...updatedTask, text: updatedTask.title} : task)).
withSavedTask(ts, updated) ==
    [i \in 1..Len(ts) |->
        IF ts[i].id = updated.id
        THEN [updated EXCEPT !.text = updated.title]
        ELSE ts[i]]

\* Mutant of handleSaveTask: the call is dropped when its session is closed.
handleSaveTask_OnlyWhileOpen ==
    /\ host \in HomeHosts
    /\ saves # <<>>
    /\ isModalOpen
    /\ tasks' = withSavedTask(tasks, Head(saves))
    /\ saves' = Tail(saves)
    /\ copies' = Tail(copies)
    /\ ModalUnmounted
    /\ seen' = IF \E i \in 1..Len(tasks) : tasks[i].id = Head(saves).id
               THEN "none"
               ELSE "lost"
    /\ UNCHANGED <<props, display, quick, deletes, nextId, homeEvents>>

\* The delay of the oldest handleSaveTask call ends: the store takes the
\* task, and handleSave resumes with onClose() and setIsSaving(false).
handleSaveTask ==
    /\ host \in HomeHosts
    /\ saves # <<>>
    /\ tasks' = withSavedTask(tasks, Head(saves))
    /\ saves' = Tail(saves)
    /\ copies' = Tail(copies)
    /\ ModalUnmounted
    /\ seen' = IF \E i \in 1..Len(tasks) : tasks[i].id = Head(saves).id
               THEN "none"
               ELSE "lost"
    /\ UNCHANGED <<props, display, quick, deletes, nextId, homeEvents>>

\* handleDelete up to its await: window.confirm, then onDelete(task.id).
\* The Delete button is disabled while isSaving or isDeleting.
handleDelete(confirmed) ==
    /\ host \in HomeHosts
    /\ Editable
    /\ IF confirmed
       THEN /\ isDeleting' = TRUE
            /\ deletes' = Append(deletes, selectedTask.id)
       ELSE UNCHANGED <<isDeleting, deletes>>
    /\ seen' = "none"
    /\ UNCHANGED <<props, display, quick, tasks, saves, copies, nextId, homeEvents,
                   tags, tagInput, title, description, priority,
                   isSaving, selectedTask, isModalOpen, last, trip>>

\* The delay of the oldest handleDeleteFromModal call ends: it calls
\* handleDeleteTask(taskId), and handleDelete resumes with onClose() and
\* setIsDeleting(false).
handleDeleteFromModal ==
    /\ host \in HomeHosts
    /\ deletes # <<>>
    /\ tasks' = withoutTask(tasks, Head(deletes))
    /\ deletes' = Tail(deletes)
    /\ ModalUnmounted
    /\ seen' = IF \E i \in 1..Len(tasks) : tasks[i].id = Head(deletes)
               THEN "none"
               ELSE "gone"
    /\ UNCHANGED <<props, display, quick, saves, copies, nextId, homeEvents>>

\* QuickAddTask as it is mounted, with no disabled prop, at time 0.
NoQuick ==
    /\ quickInput = <<>>
    /\ isLoading = FALSE
    /\ disabled = FALSE
    /\ adds = <<>>
    /\ now = 0

\* The store, the calls in flight and the session before anything happened.
NoHome ==
    /\ tasks = <<>>
    /\ selectedTask = NoTask
    /\ isModalOpen = FALSE
    /\ title = <<>>
    /\ description = <<>>
    /\ priority = "medium"
    /\ isSaving = FALSE
    /\ isDeleting = FALSE
    /\ saves = <<>>
    /\ deletes = <<>>
    /\ copies = <<>>
    /\ nextId = 1
    /\ homeEvents = 0
    /\ seen = "none"

(***************************************************************************)
(* The specification: a freshly mounted TagsInput over an empty            *)
(* collection with its props fixed at mount, or HomePage with no task.     *)
(***************************************************************************)
Init ==
    /\ tags = <<>>
    /\ tagInput = <<>>
    /\ \/ /\ host = "usage"
          /\ maxTags \in 0..MaxTagsBound
          /\ allowDuplicates \in BOOLEAN
       \/ /\ host = "modal"
          /\ maxTags = ModalMaxTags
          /\ allowDuplicates = DefaultAllowDuplicates
    /\ NoHome
    /\ NoQuick
    /\ last = NoCall
    /\ trip = NoTrip
    /\ NoDisplay

Next ==
    \/ \E raw \in TypedTexts : setTagInput(raw)
    \/ handleAddTag
    \/ \E t \in ClickedTags : handleRemoveTag(t)
    \/ \E key \in Keys : handleTagKeyDown(key)
    \/ \E taskInput \in QuickTexts : handleAddTask(taskInput)
    \/ \E i \in 1..Len(tasks) : handleDeleteTask(i)
    \/ \E i \in 1..Len(tasks) : handleOpenTaskDetails(i)
    \/ handleCloseModal
    \/ handleSave
    \/ handleSaveTask

Spec == Init /\ [][Next]_vars

(***************************************************************************)
(* TagsDisplay (src/src/components/tags-display.tsx): the read-only        *)
(* renderer of a tag collection. host = "display": an owner renders it     *)
(* with props of its choice, and the user clicks the tags it shows.        *)
(***************************************************************************)
\* The longest collection handed to the renderer, and the largest cap.
MaxDisplayLen == 3
MaxDisplayBound == 4

\* The collections rendered: every sequence of up to MaxDisplayLen tags,
\* repeated tags included.
DisplayTags == {<<"a">>, <<"b">>}
DisplayCollections ==
    UNION {[1..n -> DisplayTags] : n \in 0..MaxDisplayLen}

\* The values of the maxDisplay prop: absent (<<>>), or a number n (<<n>>).
DisplayCaps == {<<>>} \cup {<<n>> : n \in (0 - 1)..MaxDisplayBound}

Variants == {"default", "compact"}

\* The truth value JavaScript gives maxDisplay in `maxDisplay ? x : y`.
truthy(cap) == cap # <<>> /\ cap[1] # 0

\* Array.prototype.slice(0, end): a negative end counts from the end of
\* the array, and the result stops at the end of the array.
slice(ts, end) ==
    LET to == IF end < 0
              THEN (IF Len(ts) + end < 0 THEN 0 ELSE Len(ts) + end)
              ELSE (IF end > Len(ts) THEN Len(ts) ELSE end)
    IN  SubSeq(ts, 1, to)

\* Math.max(0, n).
max0(n) == IF n > 0 THEN n ELSE 0

\* Mutant of displayTags: the cap is exceeded by one (slice(0, maxDisplay + 1)).
displayTags_OneMore(ts, cap) ==
    IF truthy(cap) THEN slice(ts, cap[1] + 1) ELSE ts

\* const displayTags = maxDisplay ? tags.slice(0, maxDisplay) : tags
displayTags(ts, cap) == IF truthy(cap) THEN slice(ts, cap[1]) ELSE ts

\* const remainingCount = maxDisplay ? Math.max(0, tags.length - maxDisplay) : 0
remainingCount(ts, cap) ==
    IF truthy(cap) THEN max0(Len(ts) - cap[1]) ELSE 0

\* What TagsDisplay returns: null for an empty collection, otherwise one
\* button per entry of displayTags and the "+N" indicator, shown when
\* remainingCount > 0. Both variants render the same buttons.
render(ts, cap) ==
    IF Len(ts) = 0
    THEN Null
    ELSE [rendered |-> TRUE,
          visible |-> displayTags(ts, cap),
          overflow |-> remainingCount(ts, cap)]

\* Mutant of onClick: the callback is called whether supplied or not, with
\* the label of the button ("#" and the tag).
onClick_Label(visible, i, cb) == << <<"#">> \o visible[i] >>

\* onClick={() => onTagClick?.(tag)} of the i-th button: the calls of
\* onTagClick it makes.
onClick(visible, i, cb) == IF cb THEN <<visible[i]>> ELSE <<>>

\* The owner renders TagsDisplay with the props given.
TagsDisplay(ts, cap, cb, v) ==
    /\ host = "display"
    /\ tags' = ts
    /\ maxDisplay' = cap
    /\ onTagClick' = cb
    /\ variant' = v
    /\ output' = render(ts, cap)
    /\ click' = NoClick
    /\ UNCHANGED <<tagInput, props, home, quick, last, trip>>

\* The user clicks the i-th button rendered.
TagClicked(i) ==
    /\ host = "display"
    /\ output.rendered
    /\ i \in 1..Len(output.visible)
    /\ click' = [index |-> i, calls |-> onClick(output.visible, i, onTagClick)]
    /\ UNCHANGED <<tags, tagInput, props, home, quick, last, trip,
                   maxDisplay, onTagClick, variant, output>>

DisplayInit ==
    /\ host = "display"
    /\ tags = <<>>
    /\ tagInput = <<>>
    /\ maxTags = ModalMaxTags
    /\ allowDuplicates = DefaultAllowDuplicates
    /\ NoHome
    /\ NoQuick
    /\ last = NoCall
    /\ trip = NoTrip
    /\ NoDisplay

DisplayNext ==
    \/ \E ts \in DisplayCollections, cap \in DisplayCaps,
          cb \in BOOLEAN, v \in Variants : TagsDisplay(ts, cap, cb, v)
    \/ \E i \in 1..MaxDisplayLen : TagClicked(i)

DisplaySpec == DisplayInit /\ [][DisplayNext]_vars

(***************************************************************************)
(* Reference definitions used to state the claims. They are written        *)
(* independently of trim, toLowerCase and filterNot above.                 *)
(***************************************************************************)
\* The positions of s that hold a non-whitespace character.
InkPositions(s) == {i \in 1..Len(s) : s[i] # " "}

Least(S) == CHOOSE x \in S : \A y \in S : x <= y
Greatest(S) == CHOOSE x \in S : \A y \in S : y <= x

\* s without its leading and trailing whitespace.
Stripped(s) ==
    IF InkPositions(s) = {}
    THEN <<>>
    ELSE SubSeq(s, Least(InkPositions(s)), Greatest(InkPositions(s)))

\* The lower-case letter of an upper-case letter of the alphabet.
LowerOf == [c \in {"A", "B"} |-> IF c = "A" THEN "a" ELSE "b"]

\* The normalized form of a raw text: trimmed, then lowercased.
Normalized(s) ==
    [i \in 1..Len(Stripped(s)) |->
        IF Stripped(s)[i] \in DOMAIN LowerOf
        THEN LowerOf[Stripped(s)[i]]
        ELSE Stripped(s)[i]]

\* No two entries of ts are equal.
NoDuplicates(ts) == \A i, j \in 1..Len(ts) : i # j => ts[i] # ts[j]

\* ts without every entry equal to t, the others in their order.
RECURSIVE Without(_, _)
Without(ts, t) ==
    IF ts = <<>> THEN <<>>
    ELSE IF Head(ts) = t THEN Without(Tail(ts), t)
    ELSE <<Head(ts)>> \o Without(Tail(ts), t)

\* ts without its final entry.
Front(ts) == SubSeq(ts, 1, Len(ts) - 1)

\* The last handler call was handleAddTag / handleRemoveTag.
AddCalled == last.op = "handleAddTag"
RemoveCalled == last.op = "handleRemoveTag"

\* Some entry of the collection handleAddTag saw equals its input, both
\* compared after normalization.
InputWasPresent ==
    \E i \in 1..Len(last.tags) :
        Normalized(last.tags[i]) = Normalized(last.tagInput)

\* The add the last call attempted was one the editor accepts.
AddWasAcceptable ==
    /\ AddCalled
    /\ Normalized(last.tagInput) # <<>>
    /\ allowDuplicates \/ ~InputWasPresent
    /\ Len(last.tags) < maxTags

(***************************************************************************)
(* C1. A collection built from the empty one by adds, removals by value    *)
(* and removals of the last tag never holds more than maxTags entries,     *)
(* and with allowDuplicates false never holds two equal entries; every     *)
(* collection the edit modal hands to the task store, in flight or         *)
(* committed, has at most 10 pairwise-distinct tags.                       *)
(***************************************************************************)
C1_BoundedDistinct ==
    /\ Len(tags) <= maxTags
    /\ ~allowDuplicates => NoDuplicates(tags)
    /\ \A i \in 1..Len(saves) :
          Len(saves[i].tags) <= 10 /\ NoDuplicates(saves[i].tags)
    /\ \A i \in 1..Len(tasks) :
          Len(tasks[i].tags) <= 10 /\ NoDuplicates(tasks[i].tags)

\* The store holds a task whose committed collection is full: ten tags
\* were added in an edit session, saved and written back.
C1_Witness ==
    /\ host = "modal"
    /\ \E i \in 1..Len(tasks) : Len(tasks[i].tags) = 10

(***************************************************************************)
(* C2. With allowDuplicates false, an add whose input equals an entry of   *)
(* the collection, both compared after normalization, leaves the           *)
(* collection as it was: nothing is appended and onTagsChange is not       *)
(* called.                                                                 *)
(***************************************************************************)
C2_DuplicateRejected ==
    (AddCalled /\ ~allowDuplicates /\ InputWasPresent)
        => (tags = last.tags /\ last.calls = <<>>)

\* A duplicate typed in another case and with surrounding whitespace was
\* rejected by a collection that had room for one more tag.
C2_Witness ==
    /\ AddCalled /\ ~allowDuplicates /\ InputWasPresent
    /\ last.tagInput # Normalized(last.tagInput)
    /\ Len(last.tags) < maxTags
    /\ tags = last.tags

(***************************************************************************)
(* C3. An add on a collection whose length is at least maxTags is a silent *)
(* no-op, whatever the input: the collection is unchanged and onTagsChange *)
(* is not called.                                                          *)
(***************************************************************************)
C3_LimitRejected ==
    (AddCalled /\ Len(last.tags) >= maxTags)
        => (tags = last.tags /\ last.calls = <<>>)

\* A new, non-empty tag was refused by a full collection of two tags.
C3_Witness ==
    /\ AddCalled /\ Len(last.tags) >= maxTags /\ maxTags = 2
    /\ Normalized(last.tagInput) # <<>> /\ ~InputWasPresent
    /\ tags = last.tags

(***************************************************************************)
(* C4. The value an add appends is the raw input trimmed and lowercased,   *)
(* and every tag of a collection built from the empty one is normalized:   *)
(* normalizing it again changes nothing.                                   *)
(***************************************************************************)
C4_AppendedIsNormalized ==
    /\ (AddCalled /\ last.calls # <<>>)
          => (/\ Len(tags) = Len(last.tags) + 1
              /\ tags[Len(tags)] = Normalized(last.tagInput))
    /\ \A i \in 1..Len(tags) : Normalized(tags[i]) = tags[i]

\* An input in upper case with inner and trailing whitespace was appended.
C4_Witness ==
    /\ AddCalled /\ last.calls # <<>>
    /\ last.tagInput = <<"A", " ", "B", " ">>
    /\ tags[Len(tags)] = <<"a", " ", "b">>

(***************************************************************************)
(* C5. An accepted add (normalized input non-empty, not a rejected         *)
(* duplicate, collection below maxTags) yields the previous collection     *)
(* with the normalized value appended as its last entry.                   *)
(***************************************************************************)
C5_AcceptedAppends ==
    AddWasAcceptable
        => (/\ tags = Append(last.tags, Normalized(last.tagInput))
            /\ Len(tags) = Len(last.tags) + 1
            /\ \A i \in 1..Len(last.tags) : tags[i] = last.tags[i])

\* A third tag was appended behind two others.
C5_Witness ==
    /\ AddWasAcceptable
    /\ Len(last.tags) = 2
    /\ Len(tags) = 3
    /\ tags[1] # tags[3]

(***************************************************************************)
(* C6. An add whose input is empty after trimming is a no-op for every     *)
(* collection and every setting of the options: the collection is          *)
(* unchanged and onTagsChange is not called.                               *)
(***************************************************************************)
C6_EmptyRejected ==
    (AddCalled /\ Stripped(last.tagInput) = <<>>)
        => (tags = last.tags /\ last.calls = <<>>)

\* A whitespace-only input was refused by a collection with room left that
\* allows duplicates.
C6_Witness ==
    /\ AddCalled /\ last.tagInput = <<" ">>
    /\ allowDuplicates /\ Len(last.tags) = 1 /\ maxTags = 2
    /\ tags = last.tags

(***************************************************************************)
(* C7. Backspace with an empty input on a non-empty collection removes     *)
(* the final entry only, also when the collection holds duplicate tags;    *)
(* on the empty collection it changes nothing.                             *)
(***************************************************************************)
C7_RemoveLast ==
    /\ (RemoveCalled /\ last.key = "Backspace") => tags = Front(last.tags)
    /\ (last.key = "Backspace" /\ last.tags = <<>>) => tags = <<>>

(***************************************************************************)
(* C8 as stated. Whenever an add appended, removing the appended value     *)
(* next restores the collection the add started from, for every            *)
(* configuration.                                                          *)
(***************************************************************************)
C8_RoundTripAlways ==
    trip.phase = "removed" => tags = trip.base

(***************************************************************************)
(* C8 as amended. Whenever an add appended a value that the collection did *)
(* not hold before, removing that value next restores the collection the   *)
(* add started from.                                                       *)
(***************************************************************************)
C8_RoundTripOfNewTag ==
    (trip.phase = "removed" /\ \A i \in 1..Len(trip.base) : trip.base[i] # trip.tag)
        => tags = trip.base

\* A new tag was appended to a collection of two and removed again.
C8_Witness ==
    /\ trip.phase = "removed"
    /\ Len(trip.base) = 2
    /\ \A i \in 1..Len(trip.base) : trip.base[i] # trip.tag
    /\ tags = trip.base

(***************************************************************************)
(* C9. remove(C, tag) yields exactly the entries of C that differ from     *)
(* tag, in their order; when tag is absent the result equals C.            *)
(***************************************************************************)
C9_RemoveByValue ==
    RemoveCalled
        => (/\ tags = Without(last.tags, last.arg)
            /\ (\A i \in 1..Len(last.tags) : last.tags[i] # last.arg)
                  => tags = last.tags)

\* Both copies of a tag were removed from between and around another tag.
C9_Witness ==
    /\ RemoveCalled /\ last.key = "click"
    /\ Len(last.tags) = 3 /\ last.tags[1] = last.arg /\ last.tags[3] = last.arg
    /\ Len(tags) = 1

(***************************************************************************)
(* C10 as stated. Every rejected add leaves both the collection and the    *)
(* staged input text unchanged.                                            *)
(***************************************************************************)
C10_RejectedKeepsText ==
    (AddCalled /\ last.calls = <<>>)
        => (tags = last.tags /\ tagInput = last.tagInput)

(***************************************************************************)
(* C10 as amended. A rejected add leaves the collection unchanged; it      *)
(* leaves the staged text unchanged when the input is empty after          *)
(* trimming or the collection is at the limit, and clears the staged text  *)
(* when it rejects a duplicate. An accepted add clears the staged text     *)
(* and changes nothing but the collection and the staged text.             *)
(***************************************************************************)
C10_AddEffects ==
    AddCalled =>
        /\ last.calls = <<>> => tags = last.tags
        /\ Len(last.calls) <= 1
        /\ tagInput =
              IF Normalized(last.tagInput) = <<>> THEN last.tagInput
              ELSE IF ~allowDuplicates /\ InputWasPresent THEN <<>>
              ELSE IF Len(last.tags) >= maxTags THEN last.tagInput
              ELSE <<>>

\* A rejected duplicate cleared a non-empty staged text.
C10_Witness ==
    /\ AddCalled /\ last.calls = <<>>
    /\ ~allowDuplicates /\ InputWasPresent
    /\ last.tagInput # <<>> /\ tagInput = <<>>
    /\ tags = last.tags

(***************************************************************************)
(* HomePage with its edit modal, every field of a task edited (host =      *)
(* "home"). The fields, the tag input and the buttons of the modal are     *)
(* disabled while a save or a delete is awaited, so the handlers of        *)
(* TagsInput run only while the session is Editable.                       *)
(***************************************************************************)
\* The tag texts typed in the modal of this host.
HomeTexts == {<<"a">>}

AppInit ==
    /\ host = "home"
    /\ tags = <<>>
    /\ tagInput = <<>>
    /\ maxTags = ModalMaxTags
    /\ allowDuplicates = DefaultAllowDuplicates
    /\ NoHome
    /\ NoQuick
    /\ last = NoCall
    /\ trip = NoTrip
    /\ NoDisplay

AppNext ==
    \/ \E taskInput \in QuickTexts : handleAddTask(taskInput)
    \/ \E i \in 1..Len(tasks) : handleToggleTask(i)
    \/ \E i \in 1..Len(tasks) : handleDeleteTask(i)
    \/ \E i \in 1..Len(tasks) : handleOpenTaskDetails(i)
    \/ handleCloseModal
    \/ \E text \in TitleTexts : setTitle(text)
    \/ \E text \in DescriptionTexts : setDescription(text)
    \/ \E p \in PriorityClicks : setPriority(p)
    \/ Editable /\ \E raw \in HomeTexts : setTagInput(raw)
    \/ Editable /\ handleAddTag
    \/ Editable /\ \E i \in 1..Len(tags) : handleRemoveTag(tags[i])
    \/ handleSave
    \/ handleSaveTask
    \/ \E confirmed \in BOOLEAN : handleDelete(confirmed)
    \/ handleDeleteFromModal

AppSpec == AppInit /\ [][AppNext]_vars

\* The delays end: a timer that was set fires.
AppLiveSpec ==
    /\ AppInit /\ [][AppNext]_vars
    /\ WF_vars(handleSaveTask)
    /\ WF_vars(handleDeleteFromModal)

(***************************************************************************)
(* TagsInput as the user reaches it (host = "usage", which passes no       *)
(* disabled prop): the input and the Add button exist only while the       *)
(* collection is below the limit, the Add button is disabled while the     *)
(* staged text is blank, and every tag has its X button.                   *)
(***************************************************************************)
\* {tags.length < maxTags && (<input .../> <button>Add</button>)}.
inputRendered == Mounted /\ Len(tags) < maxTags

\* The user types into the input.
inputChanged(raw) == inputRendered /\ setTagInput(raw)

\* The user presses a key in the input.
inputKeyPressed(key) == inputRendered /\ handleTagKeyDown(key)

\* The user clicks the Add button (disabled={!tagInput.trim() || disabled}).
addClicked == inputRendered /\ trim(tagInput) # <<>> /\ handleAddTag

\* The user clicks the X button of a tag of the collection.
removeClicked(i) == i \in 1..Len(tags) /\ handleRemoveTag(tags[i])

UiInit ==
    /\ host = "usage"
    /\ tags = <<>>
    /\ tagInput = <<>>
    /\ maxTags \in 0..MaxTagsBound
    /\ allowDuplicates \in BOOLEAN
    /\ NoHome
    /\ NoQuick
    /\ last = NoCall
    /\ trip = NoTrip
    /\ NoDisplay

UiNext ==
    \/ \E raw \in RawInputs : inputChanged(raw)
    \/ \E key \in Keys : inputKeyPressed(key)
    \/ addClicked
    \/ \E i \in 1..Len(tags) : removeClicked(i)

UiSpec == UiInit /\ [][UiNext]_vars

(***************************************************************************)
(* QuickAddTask (src/unnamed/part_002) in HomePage, with the clock.        *)
(*                                                                         *)
(* handleSubmit calls onSubmit = handleAddTask, whose delay (setTimeout)   *)
(* ends no earlier than Delay ticks after the call; the task takes the     *)
(* clock's value then as its id. host = "page" is HomePage, whose          *)
(* operations always complete. host = "owner" is an owner like HomePage    *)
(* whose onSubmit, onSave and onDelete may also reject at the end of their *)
(* delay, and which may disable QuickAddTask: there the catch and finally  *)
(* branches of handleSubmit, handleSave and handleDelete run.              *)
(***************************************************************************)
\* setTimeout(resolve, 300) of handleAddTask, in ticks of the clock: one
\* tick is 150 ms.
Delay == 2

\* The last tick of the clock.
MaxNow == 4

PageHosts == {"page", "owner"}

\* The texts typed into QuickAddTask: a blank one, and one that trimming
\* would change.
QuickInputs == {<<" ">>, <<"t", " ">>}

\* Time passes.
Tick ==
    /\ host \in PageHosts
    /\ now < MaxNow
    /\ now' = now + 1
    /\ UNCHANGED <<quickInput, isLoading, disabled, adds, props, display,
                   session, tasks, saves, deletes, copies, nextId,
                   homeEvents, seen>>

\* The owner re-renders QuickAddTask with another disabled prop.
setIsDisabled(b) ==
    /\ host = "owner"
    /\ b # disabled
    /\ disabled' = b
    /\ seen' = "none"
    /\ UNCHANGED <<quickInput, isLoading, adds, now, props, display,
                   session, tasks, saves, deletes, copies, nextId,
                   homeEvents>>

\* onChange of QuickAddTask's input (disabled={disabled || isLoading}):
\* setInput(e.target.value).
setInput(text) ==
    /\ host \in PageHosts
    /\ ~(disabled \/ isLoading)
    /\ quickInput' = text
    /\ seen' = "none"
    /\ UNCHANGED <<isLoading, disabled, adds, now, props, display,
                   session, tasks, saves, deletes, copies, nextId,
                   homeEvents>>

\* Mutant of handleSubmit: a submission in flight does not stop the next.
handleSubmit_NoLoadingCheck ==
    /\ host \in PageHosts
    /\ IF trim(quickInput) = <<>> \/ disabled
       THEN /\ seen' = "ignored"
            /\ UNCHANGED <<isLoading, adds>>
       ELSE /\ now + Delay <= MaxNow
            /\ isLoading' = TRUE
            /\ adds' = Append(adds, [text |-> quickInput, due |-> now + Delay])
            /\ seen' = "none"
    /\ UNCHANGED <<quickInput, disabled, now, props, display,
                   session, tasks, saves, deletes, copies, nextId,
                   homeEvents>>

\* Mutant of handleSubmit: a blank text is submitted.
handleSubmit_NoTrimCheck ==
    /\ host \in PageHosts
    /\ IF isLoading \/ disabled
       THEN /\ seen' = "ignored"
            /\ UNCHANGED <<isLoading, adds>>
       ELSE /\ now + Delay <= MaxNow
            /\ isLoading' = TRUE
            /\ adds' = Append(adds, [text |-> quickInput, due |-> now + Delay])
            /\ seen' = "none"
    /\ UNCHANGED <<quickInput, disabled, now, props, display,
                   session, tasks, saves, deletes, copies, nextId,
                   homeEvents>>

\* handleSubmit up to its await, whenever the form is submitted: a blank
\* text, a submission in flight or the disabled prop make it return;
\* otherwise setIsLoading(true) and onSubmit(input), whose delay starts.
\* Calls are started while their delay can pass before the last tick.
handleSubmit ==
    /\ host \in PageHosts
    /\ IF trim(quickInput) = <<>> \/ isLoading \/ disabled
       THEN /\ seen' = "ignored"
            /\ UNCHANGED <<isLoading, adds>>
       ELSE /\ now + Delay <= MaxNow
            /\ isLoading' = TRUE
            /\ adds' = Append(adds, [text |-> quickInput, due |-> now + Delay])
            /\ seen' = "none"
    /\ UNCHANGED <<quickInput, disabled, now, props, display,
                   session, tasks, saves, deletes, copies, nextId,
                   homeEvents>>

\* The task handleAddTask builds at time t: id and createdAt are read from
\* the clock.
newTaskAt(taskInput, t) ==
    [newTask(taskInput) EXCEPT !.id = t, !.createdAt = t]

\* Mutant of handleSubmitResumes: the task is stored with the trimmed text.
handleSubmitResumes_Trims ==
    /\ host \in PageHosts
    /\ adds # <<>>
    /\ now >= Head(adds).due
    /\ tasks' = <<newTaskAt(trim(Head(adds).text), now)>> \o tasks
    /\ adds' = Tail(adds)
    /\ quickInput' = <<>>
    /\ isLoading' = FALSE
    /\ seen' = "none"
    /\ UNCHANGED <<disabled, now, props, display, session, saves, deletes,
                   copies, nextId, homeEvents>>

\* The delay of the oldest handleAddTask call has passed: the new task is
\* put first, and handleSubmit resumes with setInput('') and, in finally,
\* setIsLoading(false).
handleSubmitResumes ==
    /\ host \in PageHosts
    /\ adds # <<>>
    /\ now >= Head(adds).due
    /\ tasks' = <<newTaskAt(Head(adds).text, now)>> \o tasks
    /\ adds' = Tail(adds)
    /\ quickInput' = <<>>
    /\ isLoading' = FALSE
    /\ seen' = "none"
    /\ UNCHANGED <<disabled, now, props, display, session, saves, deletes,
                   copies, nextId, homeEvents>>

\* Mutant of handleSubmitCatches: there is no finally.
handleSubmitCatches_KeepsLoading ==
    /\ host = "owner"
    /\ adds # <<>>
    /\ now >= Head(adds).due
    /\ adds' = Tail(adds)
    /\ seen' = "failed"
    /\ UNCHANGED <<quickInput, isLoading, disabled, now, props, display,
                   session, tasks, saves, deletes, copies, nextId,
                   homeEvents>>

\* Mutant of handleSubmitCatches: the text is cleared in finally.
handleSubmitCatches_Clears ==
    /\ host = "owner"
    /\ adds # <<>>
    /\ now >= Head(adds).due
    /\ adds' = Tail(adds)
    /\ quickInput' = <<>>
    /\ isLoading' = FALSE
    /\ seen' = "failed"
    /\ UNCHANGED <<disabled, now, props, display, session, tasks,
                   saves, deletes, copies, nextId, homeEvents>>

\* The oldest onSubmit call rejects after its delay: handleSubmit resumes
\* in catch (console.error) and, in finally, setIsLoading(false).
handleSubmitCatches ==
    /\ host = "owner"
    /\ adds # <<>>
    /\ now >= Head(adds).due
    /\ adds' = Tail(adds)
    /\ isLoading' = FALSE
    /\ seen' = "failed"
    /\ UNCHANGED <<quickInput, disabled, now, props, display, session, tasks,
                   saves, deletes, copies, nextId, homeEvents>>

\* The save that ends is the open session's own. A session has at most one
\* call in flight, the newest of its kind; and the state of a modal that was
\* unmounted is gone, so its setIsSaving(false) changes nothing.
ownSave == isModalOpen /\ isSaving /\ Len(saves) = 1
ownDelete == isModalOpen /\ isDeleting /\ Len(deletes) = 1

\* Mutant of handleSaveCatches: onClose() is called in finally.
handleSaveCatches_Closes ==
    /\ host = "owner"
    /\ saves # <<>>
    /\ saves' = Tail(saves)
    /\ copies' = Tail(copies)
    /\ ModalUnmounted
    /\ seen' = "failed"
    /\ UNCHANGED <<props, display, quick, tasks, deletes, nextId,
                   homeEvents>>

\* The oldest onSave call rejects after its delay: handleSave resumes in
\* catch (console.error), without onClose(), and, in finally,
\* setIsSaving(false).
handleSaveCatches ==
    /\ host = "owner"
    /\ saves # <<>>
    /\ saves' = Tail(saves)
    /\ copies' = Tail(copies)
    /\ isSaving' = IF ownSave THEN FALSE ELSE isSaving
    /\ seen' = "failed"
    /\ UNCHANGED <<props, display, quick, tasks, deletes, nextId,
                   homeEvents, tags, tagInput, title, description, priority,
                   isDeleting, selectedTask, isModalOpen, last, trip>>

\* The oldest onDelete call rejects after its delay: handleDelete resumes
\* in catch, without onClose(), and, in finally, setIsDeleting(false).
handleDeleteCatches ==
    /\ host = "owner"
    /\ deletes # <<>>
    /\ deletes' = Tail(deletes)
    /\ isDeleting' = IF ownDelete THEN FALSE ELSE isDeleting
    /\ seen' = "failed"
    /\ UNCHANGED <<props, display, quick, tasks, saves, copies, nextId,
                   homeEvents, tags, tagInput, title, description, priority,
                   isSaving, selectedTask, isModalOpen, last, trip>>

PageInit ==
    /\ host = "page"
    /\ tags = <<>>
    /\ tagInput = <<>>
    /\ maxTags = ModalMaxTags
    /\ allowDuplicates = DefaultAllowDuplicates
    /\ NoHome
    /\ NoQuick
    /\ last = NoCall
    /\ trip = NoTrip
    /\ NoDisplay

PageNext ==
    \/ Tick
    \/ \E text \in QuickInputs : setInput(text)
    \/ handleSubmit
    \/ handleSubmitResumes
    \/ \E i \in 1..Len(tasks) : handleToggleTask(i)
    \/ \E i \in 1..Len(tasks) : handleDeleteTask(i)
    \/ \E i \in 1..Len(tasks) : handleOpenTaskDetails(i)
    \/ handleCloseModal
    \/ \E text \in TitleTexts : setTitle(text)
    \/ handleSave
    \/ handleSaveTask
    \/ \E confirmed \in BOOLEAN : handleDelete(confirmed)
    \/ handleDeleteFromModal

PageSpec == PageInit /\ [][PageNext]_vars

\* Time passes, and a delay that has passed ends.
PageLiveSpec ==
    /\ PageInit /\ [][PageNext]_vars
    /\ WF_vars(Tick)
    /\ WF_vars(handleSubmitResumes)

\* The texts typed with this owner, in QuickAddTask and in the title field
\* of the modal: texts that are submitted and saved.
OwnerInputs == {<<"t", " ">>}
OwnerTitles == {<<"u", " ">>}

OwnerInit ==
    /\ host = "owner"
    /\ tags = <<>>
    /\ tagInput = <<>>
    /\ maxTags = ModalMaxTags
    /\ allowDuplicates = DefaultAllowDuplicates
    /\ NoHome
    /\ NoQuick
    /\ last = NoCall
    /\ trip = NoTrip
    /\ NoDisplay

OwnerNext ==
    \/ Tick
    \/ \E b \in BOOLEAN : setIsDisabled(b)
    \/ \E text \in OwnerInputs : setInput(text)
    \/ handleSubmit
    \/ handleSubmitResumes
    \/ handleSubmitCatches
    \/ \E i \in 1..Len(tasks) : handleOpenTaskDetails(i)
    \/ handleCloseModal
    \/ \E text \in OwnerTitles : setTitle(text)
    \/ handleSave
    \/ handleSaveTask
    \/ handleSaveCatches
    \/ \E confirmed \in BOOLEAN : handleDelete(confirmed)
    \/ handleDeleteFromModal
    \/ handleDeleteCatches

OwnerSpec == OwnerInit /\ [][OwnerNext]_vars

\* Time passes, and every call ends, one way or the other.
OwnerLiveSpec ==
    /\ OwnerInit /\ [][OwnerNext]_vars
    /\ WF_vars(Tick)
    /\ WF_vars(handleSubmitResumes \/ handleSubmitCatches)
    /\ WF_vars(handleSaveTask \/ handleSaveCatches)
    /\ WF_vars(handleDeleteFromModal \/ handleDeleteCatches)

(***************************************************************************)
(* Reference definitions for the renderer's claims, written without        *)
(* truthy, slice and max0.                                                 *)
(***************************************************************************)
\* The cap is absent or a positive integer.
CapAbsentOrPositive == maxDisplay = <<>> \/ maxDisplay[1] >= 1

\* The first n entries of ts, all of them when n exceeds the length.
FirstN(ts, n) == [i \in {j \in 1..Len(ts) : j <= n} |-> ts[i]]

RefVisible == IF maxDisplay = <<>> THEN tags ELSE FirstN(tags, maxDisplay[1])
RefOverflow ==
    IF maxDisplay = <<>> \/ Len(tags) <= maxDisplay[1]
    THEN 0
    ELSE Len(tags) - maxDisplay[1]

(***************************************************************************)
(* C11. For a cap that is absent or a positive integer the render equals   *)
(* the reference projection: nothing for the empty collection, otherwise   *)
(* the first min(maxDisplay, length) tags in order (all when the cap is    *)
(* absent) and the overflow max(0, length - maxDisplay) (0 when absent);   *)
(* visible count plus overflow is the length of the collection.            *)
(***************************************************************************)
C11_ProjectionMatches ==
    CapAbsentOrPositive =>
        IF tags = <<>>
        THEN output = Null
        ELSE /\ output.rendered
             /\ output.visible = RefVisible
             /\ output.overflow = RefOverflow
             /\ Len(output.visible) + output.overflow = Len(tags)

\* Three tags under a cap of two: two are shown and one overflows.
C11_Witness ==
    /\ Len(tags) = 3 /\ maxDisplay = <<2>>
    /\ output.rendered
    /\ output.visible = <<tags[1], tags[2]>>
    /\ output.overflow = 1

(***************************************************************************)
(* C12. For a non-empty collection and maxDisplay = 0, no tag is visible   *)
(* and the overflow is the length of the collection.                       *)
(***************************************************************************)
C12_ZeroCap ==
    (tags # <<>> /\ maxDisplay = <<0>>)
        => (output.rendered /\ output.visible = <<>>
            /\ output.overflow = Len(tags))

Opens == ~isModalOpen /\ isModalOpen'
SaveEnds == Len(saves') < Len(saves)
DeleteEnds == Len(deletes') < Len(deletes)

\* The description a field text is stored as: trimmed, absent when empty.
RefDescription(d) == IF Stripped(d) = <<>> THEN Undefined ELSE Stripped(d)

\* The session that opens in this step shows the values of a stored task.
SeededFromStore ==
    \E i \in 1..Len(tasks) :
        /\ selectedTask'.id = tasks[i].id
        /\ title' = tasks[i].title
        /\ description' =
              (IF tasks[i].description = Undefined
               THEN <<>>
               ELSE tasks[i].description)
        /\ priority' = tasks[i].priority
        /\ tags' = tasks[i].tags

\* This step writes the working copy c into the stored task with its id,
\* and leaves every other task, the order and the length of the list alone.
Committed(c) ==
    /\ Len(tasks') = Len(tasks)
    /\ \A i \in 1..Len(tasks) :
          IF tasks[i].id = c.id
          THEN /\ tasks'[i].id = c.id
               /\ tasks'[i].title = Stripped(c.title)
               /\ tasks'[i].description = RefDescription(c.description)
               /\ tasks'[i].priority = c.priority
               /\ tasks'[i].tags = c.tags
          ELSE tasks'[i] = tasks[i]

\* Every task of the store is still there after the step, as it was.
StoreKept == \A i \in 1..Len(tasks) : \E j \in 1..Len(tasks') : tasks'[j] = tasks[i]

\* ts without the tasks whose id is id, the others in their order.
RECURSIVE RefWithout(_, _)
RefWithout(ts, id) ==
    IF ts = <<>> THEN <<>>
    ELSE IF Head(ts).id = id THEN RefWithout(Tail(ts), id)
    ELSE <<Head(ts)>> \o RefWithout(Tail(ts), id)

\* The task u is the task t with its completion flag flipped, and nothing
\* else changed.
Flipped(t, u) ==
    /\ u.completed = ~t.completed
    /\ u.id = t.id /\ u.title = t.title /\ u.text = t.text
    /\ u.description = t.description /\ u.priority = t.priority
    /\ u.tags = t.tags /\ u.createdAt = t.createdAt

(***************************************************************************)
(* C14. A session that opens shows the values of the stored task. When a   *)
(* started save ends, the stored task with the session's id takes, in that *)
(* one step, the trimmed title, the trimmed description (absent when       *)
(* empty), the priority and the tags the working copy held when the save   *)
(* was started, and every other task is unchanged; no step taken while the *)
(* modal is shown, other than the end of a save or of a delete, changes    *)
(* or removes a stored task.                                               *)
(***************************************************************************)
C14_Step ==
    /\ Opens => SeededFromStore
    /\ SaveEnds => Committed(Head(copies))
    /\ (isModalOpen /\ ~SaveEnds /\ ~DeleteEnds) => StoreKept

C14_AtomicCommit == [][C14_Step]_vars

\* A session changed every field of one of two tasks and its save ended:
\* the store holds the trimmed values, next to an untouched task.
C14_Witness ==
    /\ Len(tasks) = 2 /\ ~isModalOpen /\ saves = <<>>
    /\ \E i, j \in 1..2 :
          /\ tasks[i].title = <<"u">>
          /\ tasks[i].description = <<"d">>
          /\ tasks[i].priority = "high"
          /\ tasks[i].tags = << <<"a">> >>
          /\ tasks[j].title = <<"t">>
          /\ tasks[j].description = Undefined
          /\ tasks[j].tags = <<>>

(***************************************************************************)
(* C15. A toggle of a task id flips the completion flag of that task and   *)
(* changes nothing else: the task's other fields, every other task, the    *)
(* order and the length of the list stay; toggling the id again gives the  *)
(* store back.                                                             *)
(***************************************************************************)
C15_Step ==
    \A i \in 1..Len(tasks) :
        handleToggleTask(i) =>
            /\ Len(tasks') = Len(tasks)
            /\ \A j \in 1..Len(tasks) :
                  IF tasks[j].id = tasks[i].id
                  THEN Flipped(tasks[j], tasks'[j])
                  ELSE tasks'[j] = tasks[j]
            /\ toggled(tasks', tasks[i].id) = tasks

C15_ToggleFlipsOnly == [][C15_Step]_vars

\* Of two tasks, the one that was given a tag in a session is completed and
\* the other is not.
C15_Witness ==
    /\ Len(tasks) = 2
    /\ tasks[1].completed /\ tasks[1].tags = << <<"a">> >>
    /\ ~tasks[2].completed

(***************************************************************************)
(* C16. Closing a session from which no save or delete was started leaves  *)
(* the task store as it is, whatever was edited; and a session that opens  *)
(* starts with the title, description, priority and tags of the stored     *)
(* task.                                                                   *)
(***************************************************************************)
C16_Step ==
    /\ (/\ isModalOpen /\ ~isModalOpen'
        /\ ~isSaving /\ ~isDeleting
        /\ saves' = saves /\ deletes' = deletes) => tasks' = tasks
    /\ Opens => SeededFromStore

C16_CloseDiscards == [][C16_Step]_vars

\* A session with edits was closed without a save: the stored task still
\* has the title and the tags it was created with.
C16_Witness ==
    /\ seen = "discard" /\ ~isModalOpen /\ saves = <<>> /\ deletes = <<>>
    /\ Len(tasks) = 1
    /\ tasks[1].title = <<"t">> /\ tasks[1].tags = <<>>
    /\ tasks[1].priority = "medium" /\ tasks[1].description = Undefined

(***************************************************************************)
(* C17. While a save or a delete started from a session is awaited, no     *)
(* step of that session changes its title, description, priority, tags or  *)
(* staged tag text, and none starts another save or delete.                *)
(***************************************************************************)
C17_Step ==
    (isModalOpen /\ isModalOpen' /\ (isSaving \/ isDeleting)) =>
        /\ UNCHANGED <<title, description, priority, tags, tagInput>>
        /\ Len(saves') <= Len(saves)
        /\ Len(deletes') <= Len(deletes)

C17_NoInputInFlight == [][C17_Step]_vars

\* A session with an edited title awaits its save.
C17_Witness ==
    /\ isModalOpen /\ isSaving /\ saves # <<>>
    /\ title = <<"u", " ">>
    /\ tags = << <<"a">> >>

(***************************************************************************)
(* C18. A save or a delete that was started ends, whether or not its       *)
(* session is still open, and when it ends the store takes its effect: the *)
(* task with that id is replaced or removed if it is still there.          *)
(***************************************************************************)
C18_Step ==
    /\ SaveEnds => Committed(Head(copies))
    /\ DeleteEnds => tasks' = RefWithout(tasks, Head(deletes))

C18_NotCancellable ==
    /\ (saves # <<>>) ~> (saves = <<>>)
    /\ (deletes # <<>>) ~> (deletes = <<>>)
    /\ [][C18_Step]_vars

\* The session was closed while its save was still awaited.
C18_Witness ==
    /\ ~isModalOpen /\ saves # <<>>
    /\ \E i \in 1..Len(tasks) :
          tasks[i].id = Head(saves).id /\ tasks[i].title # Head(saves).title

(***************************************************************************)
(* C19. A save of a session whose title is empty after trimming is refused *)
(* with an alert: no save is started, the store is unchanged, the session  *)
(* stays open with its working copy, and isSaving stays false.             *)
(***************************************************************************)
C19_Step ==
    (handleSave /\ Stripped(title) = <<>>) =>
        /\ seen' = "alert"
        /\ ~isSaving'
        /\ isModalOpen'
        /\ UNCHANGED <<tasks, saves, deletes, selectedTask,
                       title, description, priority, tags>>

C19_EmptyTitleRefused == [][C19_Step]_vars

\* The save of a title of one blank was refused.
C19_Witness ==
    /\ seen = "alert" /\ isModalOpen /\ ~isSaving /\ saves = <<>>
    /\ title = <<" ">>
    /\ tasks[1].title = <<"t">>

(***************************************************************************)
(* C20. A delete of a task id, from the list or at the end of the modal's  *)
(* delay, removes the task with that id and no other: the remaining tasks  *)
(* are unchanged and in their order; when no task has the id, the store is *)
(* unchanged.                                                              *)
(***************************************************************************)
C20_Step ==
    /\ \A i \in 1..Len(tasks) :
          handleDeleteTask(i) => tasks' = RefWithout(tasks, tasks[i].id)
    /\ DeleteEnds =>
          /\ tasks' = RefWithout(tasks, Head(deletes))
          /\ (\A i \in 1..Len(tasks) : tasks[i].id # Head(deletes))
                => tasks' = tasks

C20_DeleteExactly == [][C20_Step]_vars

\* The modal's delete ended after its task had been deleted from the list:
\* the other task is still there.
C20_Witness ==
    /\ seen = "gone" /\ deletes = <<>>
    /\ Len(tasks) = 1

(***************************************************************************)
(* C22 as stated. In every state where the collection is not empty, holds  *)
(* no tag twice and no text is staged, the user can press Backspace and    *)
(* the last tag is removed; also when the collection has reached maxTags.  *)
(***************************************************************************)
C22_BackspaceAtLimit ==
    (tags # <<>> /\ tagInput = <<>> /\ NoDuplicates(tags)) =>
        ENABLED (inputKeyPressed("Backspace") /\ tags' = Front(tags))

(***************************************************************************)
(* Reference definitions for the claims about sessions and the calls they  *)
(* started. A session has at most one call in flight, which is the newest  *)
(* of its kind: the save that ends is the open session's own exactly when  *)
(* the session awaits a save and no older save is in flight; the same for  *)
(* a delete.                                                               *)
(***************************************************************************)
OwnSaveEnds == SaveEnds /\ isModalOpen /\ isSaving /\ Len(saves) = 1
OwnDeleteEnds == DeleteEnds /\ isModalOpen /\ isDeleting /\ Len(deletes) = 1

\* The user closes the session: no call in flight ends in the step.
UserCloses == isModalOpen /\ ~isModalOpen' /\ ~SaveEnds /\ ~DeleteEnds

\* The ids of the tasks of ts, in their order.
IdsOf(ts) == [i \in 1..Len(ts) |-> ts[i].id]

(***************************************************************************)
(* C27 as stated. When a save ends, every stored task has the completion   *)
(* flag it had immediately before, under every interleaving of open, edit, *)
(* save, close and toggle.                                                 *)
(***************************************************************************)
C27_Step ==
    SaveEnds =>
        /\ Len(tasks') = Len(tasks)
        /\ \A i \in 1..Len(tasks) : tasks'[i].completed = tasks[i].completed

C27_SaveKeepsCompleted == [][C27_Step]_vars

(***************************************************************************)
(* C28 as stated. A session that is open stops being open only in a step   *)
(* in which the user closes it, or in which a save or a delete that this   *)
(* session started ends.                                                   *)
(***************************************************************************)
C28_Step ==
    (isModalOpen /\ ~isModalOpen') =>
        (UserCloses \/ OwnSaveEnds \/ OwnDeleteEnds)

C28_ClosedByOwnSession == [][C28_Step]_vars

(***************************************************************************)
(* C29. The end of a save leaves the number of the stored tasks and the    *)
(* order of their ids as they are; when no stored task has the id of the   *)
(* saved task (it was deleted after the save was started), the store is    *)
(* unchanged.                                                              *)
(***************************************************************************)
C29_Step ==
    SaveEnds =>
        /\ Len(tasks') = Len(tasks)
        /\ IdsOf(tasks') = IdsOf(tasks)
        /\ (\A i \in 1..Len(tasks) : tasks[i].id # Head(saves).id)
              => tasks' = tasks

C29_SaveNeverCreates == [][C29_Step]_vars

\* A save ended after its task had been deleted from the list: the other
\* task is the only one in the store.
C29_Witness ==
    /\ seen = "lost" /\ saves = <<>> /\ ~isModalOpen
    /\ Len(tasks) = 1

(***************************************************************************)
(* Reference definitions for the claims about QuickAddTask and about calls *)
(* that fail.                                                              *)
(***************************************************************************)
\* A submission ends in this step.
AddEnds == Len(adds') < Len(adds)

\* The store after the step is the store before it with one task put first.
OneTaskPutFirst ==
    /\ Len(tasks') = Len(tasks) + 1
    /\ \A i \in 1..Len(tasks) : tasks'[i + 1] = tasks[i]

\* No two tasks of ts have the same id.
DistinctIds(ts) == \A i, j \in 1..Len(ts) : ts[i].id = ts[j].id => i = j

(***************************************************************************)
(* C21. In HomePage, a submission of a text that is blank after trimming   *)
(* changes neither the store nor the calls in flight nor isLoading. A      *)
(* submission that was accepted ends, and in the step in which it ends one *)
(* task is put first in the store, with the submitted text as its title,   *)
(* priority medium, no tags and completed false, all other tasks staying   *)
(* as they are; the store grows in no other step.                          *)
(***************************************************************************)
C21_Step ==
    /\ (handleSubmit /\ Stripped(quickInput) = <<>>)
          => UNCHANGED <<tasks, adds, isLoading>>
    /\ AddEnds =>
          /\ OneTaskPutFirst
          /\ tasks'[1].title = Head(adds).text
          /\ tasks'[1].priority = "medium"
          /\ tasks'[1].tags = <<>>
          /\ tasks'[1].completed = FALSE
    /\ Len(tasks') > Len(tasks) => AddEnds

C21_QuickAdd ==
    /\ [][C21_Step]_vars
    /\ (adds # <<>>) ~> (adds = <<>>)

\* A second task was added with the text as typed, above a task that had
\* been completed before; a blank text was submitted since.
C21_Witness ==
    /\ host = "page" /\ Len(tasks) = 2 /\ adds = <<>>
    /\ tasks[1].title = <<"t", " ">> /\ ~tasks[1].completed
    /\ tasks[2].completed
    /\ quickInput = <<" ">> /\ seen = "ignored"

(***************************************************************************)
(* C23. When the save given to the modal rejects, the step leaves the      *)
(* modal open or closed as it was and keeps the working copy and the       *)
(* store; if the save was started from the open session, isSaving is false *)
(* after the step and the session is editable again. The same holds for a  *)
(* delete that rejects, and isDeleting.                                    *)
(***************************************************************************)
C23_Step ==
    /\ handleSaveCatches =>
          /\ UNCHANGED <<isModalOpen, selectedTask, title, description,
                         priority, tags, tagInput, tasks>>
          /\ OwnSaveEnds => (~isSaving' /\ Editable')
    /\ handleDeleteCatches =>
          /\ UNCHANGED <<isModalOpen, selectedTask, title, description,
                         priority, tags, tagInput, tasks>>
          /\ OwnDeleteEnds => (~isDeleting' /\ Editable')

C23_FailureKeepsSession == [][C23_Step]_vars

\* A call of the open session has failed: the session is open, with the
\* title the user typed, and accepts input.
C23_Witness ==
    /\ host = "owner" /\ seen = "failed"
    /\ isModalOpen /\ ~isSaving /\ ~isDeleting
    /\ saves = <<>> /\ deletes = <<>>
    /\ title = <<"u", " ">> /\ tasks[1].title = <<"t", " ">>

(***************************************************************************)
(* C24. At most one onSubmit call of QuickAddTask is in flight, and it is  *)
(* in flight only while isLoading; a step taken while isLoading or while   *)
(* the component is disabled starts no call.                               *)
(***************************************************************************)
C24_Step ==
    /\ Len(adds') <= 1
    /\ (adds' # <<>>) => isLoading'
    /\ (isLoading \/ disabled) => Len(adds') <= Len(adds)

C24_OneSubmission == [][C24_Step]_vars

\* A submit was attempted while a submission was awaited, the component not
\* being disabled and its text not blank: it was ignored.
C24_Witness ==
    /\ host = "owner" /\ seen = "ignored"
    /\ isLoading /\ ~disabled /\ Len(adds) = 1
    /\ quickInput = <<"t", " ">>

(***************************************************************************)
(* C25. When onSubmit completes, the text of QuickAddTask is empty after   *)
(* the step; when it fails, the text is the submitted text, as before the  *)
(* step; in both cases isLoading is false after the step. The text becomes *)
(* empty in no other step.                                                 *)
(***************************************************************************)
C25_Step ==
    /\ handleSubmitResumes => (quickInput' = <<>> /\ ~isLoading')
    /\ handleSubmitCatches =>
          /\ quickInput' = quickInput
          /\ quickInput = Head(adds).text
          /\ ~isLoading'
    /\ (quickInput # <<>> /\ quickInput' = <<>>) =>
          (AddEnds /\ Len(tasks') > Len(tasks))

C25_ClearsOnSuccessOnly == [][C25_Step]_vars

\* A submission has failed: the text is still there, nothing was stored and
\* nothing is awaited.
C25_Witness ==
    /\ host = "owner" /\ seen = "failed"
    /\ quickInput = <<"t", " ">> /\ ~isLoading /\ adds = <<>>
    /\ tasks = <<>>

(***************************************************************************)
(* C26. Whenever a quick-add is in flight or isLoading is set, later no     *)
(* quick-add is in flight and isLoading is false; the same for a save and  *)
(* isSaving, and for a delete and isDeleting, whether the calls complete   *)
(* or fail.                                                                *)
(***************************************************************************)
C26_Terminates ==
    /\ (adds # <<>> \/ isLoading) ~> (adds = <<>> /\ ~isLoading)
    /\ (saves # <<>> \/ isSaving) ~> (saves = <<>> /\ ~isSaving)
    /\ (deletes # <<>> \/ isDeleting) ~> (deletes = <<>> /\ ~isDeleting)

\* A quick-add and a save are awaited at the same time.
C26_Witness ==
    /\ host = "owner"
    /\ isLoading /\ adds # <<>>
    /\ isSaving /\ saves # <<>>

(***************************************************************************)
(* C30. In every state of HomePage no two stored tasks have the same id.   *)
(***************************************************************************)
C30_DistinctIds == DistinctIds(tasks)

\* Two tasks were added one delay apart, as close as QuickAddTask allows.
C30_Witness ==
    /\ host = "page" /\ Len(tasks) = 2
    /\ tasks[1].id = tasks[2].id + Delay
====
